---------------------------- MODULE Spec2Model ----------------------------
(***************************************************************************)
(* State-machine model of AsyncSandboxInspector                            *)
(* (src/src/e2b_sandbox_inspector/async_client.py) and of the value types  *)
(* of schemas.py.  One facade call is in progress at a time; every await   *)
(* of a provider operation is one step, and the provider's answer to it is *)
(* either scripted when the call starts (the pages of a listing) or chosen *)
(* when the step is taken (connect, terminate, read, get_metrics).         *)
(***************************************************************************)
EXTENDS Integers, Sequences, FiniteSets, TLC

VARIABLES
    op,         \* the public operation in progress, "idle" between calls
    pc,         \* position inside the operation
    args,       \* arguments of the call
    pages,      \* the provider's paginated listing for this call
    fetched,    \* number of pages requested from the paginator
    has_next,   \* paginator.has_next
    sandboxes,  \* the list accumulated by list_sandboxes
    idx,        \* kill_all: position of the loop over the listing
    count,      \* kill_all: the running count
    files,      \* provider: content of every file, by <<sandbox id, path>>
    calls,      \* provider operations issued by this call, with their answers
    result,     \* outcome of the call
    self,       \* the inspector: api_key and default_timeout
    alive       \* provider: the sandboxes of the fleet last served that still live

vars == <<op, pc, args, pages, fetched, has_next, sandboxes, idx, count,
          files, calls, result, self, alive>>

(***************************************************************************)
(* Bounds of the model                                                     *)
(***************************************************************************)
MaxPages == 3
MaxFleet == 3
MaxPoints == 2
MaxBytes == 2
PageSize == 2

\* Python's None
None == "None"

\* outcomes of a call
NoResult == [kind |-> "none"]
Value(v) == [kind |-> "value", value |-> v]
Raised(e) == [kind |-> "error", error |-> e]

RECURSIVE Sum(_)
\* sum(ns)
Sum(ns) == IF ns = <<>> THEN 0 ELSE Head(ns) + Sum(Tail(ns))

RECURSIVE Flatten(_)
Flatten(ss) == IF ss = <<>> THEN <<>> ELSE Head(ss) \o Flatten(Tail(ss))

RECURSIVE SeqsUpTo(_, _)
\* every sequence over S of length at most n
SeqsUpTo(S, n) ==
    IF n = 0 THEN {<<>>}
    ELSE LET shorter == SeqsUpTo(S, n - 1)
         IN  shorter \cup {Append(s, x) : s \in shorter, x \in S}

(***************************************************************************)
(* Text.  A Python str is a tuple of one-character strings, so that        *)
(* lower() and the substring test of kill() are computed, not assumed.     *)
(***************************************************************************)
UpperCase == <<"A","B","C","D","E","F","G","H","I","J","K","L","M",
               "N","O","P","Q","R","S","T","U","V","W","X","Y","Z">>
LowerCase == <<"a","b","c","d","e","f","g","h","i","j","k","l","m",
               "n","o","p","q","r","s","t","u","v","w","x","y","z">>

\* one character of str.lower()
LowerChar(c) ==
    IF \E i \in 1..Len(UpperCase) : UpperCase[i] = c
    THEN LowerCase[CHOOSE i \in 1..Len(UpperCase) : UpperCase[i] = c]
    ELSE c

\* str.lower()
Lower(s) == [i \in 1..Len(s) |-> LowerChar(s[i])]

\* needle in s
Contains(s, needle) ==
    \E i \in 1..(Len(s) - Len(needle) + 1) :
        SubSeq(s, i, i + Len(needle) - 1) = needle

NotFoundText == <<"n","o","t"," ","f","o","u","n","d">>
Text404 == <<"4","0","4">>

(***************************************************************************)
(* The provider's failures: what an awaited provider operation may raise.  *)
(* kind is the provider's own classification (spec section 7), msg is      *)
(* str(e), the only thing kill() looks at.                                 *)
(***************************************************************************)
SandboxNotFound ==
    [kind |-> "NotFound",
     msg |-> <<"S","a","n","d","b","o","x"," ","N","o","t"," ","F","o","u","n","d">>]
Http404 ==
    [kind |-> "NotFound", msg |-> <<"4","0","4",":"," ","g","o","n","e">>]
RequestTimeout ==
    [kind |-> "Timeout",
     msg |-> <<"T","i","m","e","d"," ","o","u","t"," ","a","f","t","e","r"," ","4","0","s">>]
Http500 ==
    [kind |-> "ProviderError",
     msg |-> <<"5","0","0",":"," ","n","o"," ","r","o","u","t","e"," ","f","o","u","n","d">>]

TerminateFailures == {SandboxNotFound, Http404, RequestTimeout, Http500}
Terminated == [kind |-> "ok"]
TerminateOutcomes == {Terminated} \cup TerminateFailures

(***************************************************************************)
(* schemas.py                                                              *)
(***************************************************************************)
\* mutant: the state field is not validated
ValidState_any(s) == TRUE

\* SandboxState = Literal["running", "paused"]: pydantic rejects any other
ValidState(s) == s \in {"running", "paused"}

\* SandboxInfo(...): the fields list_sandboxes copies from a raw record
SandboxInfo(sbx) ==
    [sandbox_id |-> sbx.sandbox_id,
     state      |-> sbx.state,
     started_at |-> sbx.started_at,
     cpu_count  |-> sbx.cpu_count,
     memory_mb  |-> sbx.memory_mb]

\* pydantic's error for a field outside its type
ValidationError == [kind |-> "ValidationError"]
\* the ValueError kill_all raises
ValueError == [kind |-> "ValueError"]

(***************************************************************************)
(* Inputs: the fleets and listings the provider may serve                  *)
(***************************************************************************)
SandboxIds == <<"sbx_a", "sbx_b", "sbx_c", "sbx_d", "sbx_e">>
States == {"running", "paused", "frozen"}
StartedAts == {1, 2}
Sizes == {[cpu_count |-> 1, memory_mb |-> 512], [cpu_count |-> 2, memory_mb |-> 256]}

\* a raw record of the provider's listing
RawSandbox(id, st, t, size) ==
    [sandbox_id |-> id, state |-> st, started_at |-> t,
     cpu_count |-> size.cpu_count, memory_mb |-> size.memory_mb]

Page(its, more) == [items |-> its, has_next |-> more]

\* the two records the listings of list_sandboxes are made of
RecA == RawSandbox(SandboxIds[1], "running", 2, [cpu_count |-> 1, memory_mb |-> 512])
RecB == RawSandbox(SandboxIds[2], "paused", 1, [cpu_count |-> 2, memory_mb |-> 256])
PageItems == {<<>>, <<RecA>>, <<RecB>>, <<RecA, RecB>>, <<RecB, RecA>>}

\* a listing is a finite sequence of pages whose last page reports no more
ListingScripts ==
    {s \in SeqsUpTo({Page(its, more) : its \in PageItems, more \in BOOLEAN}, MaxPages) :
        s # <<>> /\ ~s[Len(s)].has_next}

RECURSIVE Paginate(_, _)
\* the listing a provider serving n records a page makes of a fleet
Paginate(fleet, n) ==
    IF Len(fleet) <= n THEN <<Page(fleet, FALSE)>>
    ELSE <<Page(SubSeq(fleet, 1, n), TRUE)>> \o Paginate(SubSeq(fleet, n + 1, Len(fleet)), n)

\* fleets of kill_all: n running sandboxes
KillFleets ==
    {[i \in 1..n |-> RawSandbox(SandboxIds[i], "running", 1, [cpu_count |-> 1, memory_mb |-> 512])] :
        n \in 0..MaxFleet}

\* fleets of summary: every state, start time and size at every position
SummaryFleets ==
    UNION {{[i \in 1..n |-> RawSandbox(SandboxIds[i], f[i][1], f[i][2], f[i][3])] :
                f \in [1..n -> States \X StartedAts \X Sizes]} : n \in 0..MaxFleet}

(***************************************************************************)
(* summary                                                                 *)
(***************************************************************************)
IsRunning(s) == s.state = "running"
IsPaused(s) == s.state = "paused"
CpuCounts(s) == [i \in 1..Len(s) |-> s[i].cpu_count]
MemoryMbs(s) == [i \in 1..Len(s) |-> s[i].memory_mb]

RECURSIVE MinFrom(_, _)
\* min(..., key=lambda s: s.started_at): a later element replaces the best
\* so far only when its key is strictly less
MinFrom(best, rest) ==
    IF rest = <<>> THEN best
    ELSE MinFrom(IF Head(rest).started_at < best.started_at THEN Head(rest) ELSE best,
                 Tail(rest))

RECURSIVE MaxFrom_lastWins(_, _)
\* mutant: a later element with an equal key replaces the best so far
MaxFrom_lastWins(best, rest) ==
    IF rest = <<>> THEN best
    ELSE MaxFrom_lastWins(IF Head(rest).started_at >= best.started_at THEN Head(rest) ELSE best,
                          Tail(rest))

RECURSIVE MaxFrom(_, _)
\* max(..., key=lambda s: s.started_at): a later element replaces the best
\* so far only when its key is strictly greater
MaxFrom(best, rest) ==
    IF rest = <<>> THEN best
    ELSE MaxFrom(IF Head(rest).started_at > best.started_at THEN Head(rest) ELSE best,
                 Tail(rest))

\* Summary(...) of a listing (the uptimes, which read the clock, are left out)
Summary(s) ==
    LET oldest == IF s # <<>> THEN MinFrom(Head(s), Tail(s)) ELSE None
        newest == IF s # <<>> THEN MaxFrom(Head(s), Tail(s)) ELSE None
    IN  [running_count     |-> Len(SelectSeq(s, IsRunning)),
         paused_count      |-> Len(SelectSeq(s, IsPaused)),
         total_count       |-> Len(s),
         total_cpu         |-> Sum(CpuCounts(s)),
         total_memory_mb   |-> Sum(MemoryMbs(s)),
         oldest_sandbox_id |-> IF s # <<>> THEN oldest.sandbox_id ELSE None,
         newest_sandbox_id |-> IF s # <<>> THEN newest.sandbox_id ELSE None]

(***************************************************************************)
(* list_sandboxes                                                          *)
(***************************************************************************)
\* the query list_sandboxes builds from its state filter (metadata omitted)
QueryOf(state) ==
    IF state = None THEN None
    ELSE [state |-> <<IF state = "running" THEN "RUNNING" ELSE "PAUSED">>]

\* mutant: each page is put in front of what was accumulated
Accumulate_prepend(acc, its) == [i \in 1..Len(its) |-> SandboxInfo(its[i])] \o acc

\* sandboxes.append(SandboxInfo(...)) for sbx in items
Accumulate(acc, its) == acc \o [i \in 1..Len(its) |-> SandboxInfo(its[i])]

\* mutant: the loop asks for a next page whatever has_next says
ListContinues_ignoresHasNext(its, more) == its # <<>>

\* while items: ... if paginator.has_next: next_items() else: break
ListContinues(its, more) == its # <<>> /\ more

\* list_sandboxes returns acc to the operation that called it
ListingDone(acc) ==
    /\ sandboxes' = acc
    /\ CASE op = "list_sandboxes" ->
              /\ result' = Value(acc)
              /\ pc' = "done"
              /\ UNCHANGED <<idx, count>>
         [] op = "kill_all" ->
              /\ idx' = 1
              /\ count' = 0
              /\ IF acc = <<>>
                 THEN result' = Value(0) /\ pc' = "done"
                 ELSE pc' = "kill" /\ UNCHANGED result
         [] op = "summary" ->
              /\ result' = Value(Summary(acc))
              /\ pc' = "done"
              /\ UNCHANGED <<idx, count>>

\* the code that runs once a page has arrived, up to the next await
ReceivePage(page) ==
    IF page.items = <<>>
    THEN ListingDone(sandboxes)
    ELSE IF \E i \in 1..Len(page.items) : ~ValidState(page.items[i].state)
    THEN /\ result' = Raised(ValidationError)
         /\ pc' = "done"
         /\ UNCHANGED <<sandboxes, idx, count>>
    ELSE IF ListContinues(page.items, page.has_next)
    THEN /\ sandboxes' = Accumulate(sandboxes, page.items)
         /\ pc' = "list_next"
         /\ UNCHANGED <<result, idx, count>>
    ELSE ListingDone(Accumulate(sandboxes, page.items))

\* paginator.next_items(): the next page of the listing
NextItems ==
    /\ fetched < Len(pages)
    /\ fetched' = fetched + 1
    /\ has_next' = pages[fetched + 1].has_next
    /\ calls' = Append(calls, [op |-> "next_items", page |-> fetched + 1])
    /\ ReceivePage(pages[fetched + 1])
    /\ UNCHANGED <<op, args, pages, files, self, alive>>

\* items = await paginator.next_items()   (first page)
ListFirst ==
    /\ pc = "list_first"
    /\ NextItems

\* if paginator.has_next: items = await paginator.next_items()
ListNext ==
    /\ pc = "list_next"
    /\ NextItems

Start_list_sandboxes ==
    /\ pc = "idle"
    /\ \E st \in {None, "running", "paused"}, script \in ListingScripts :
        /\ op' = "list_sandboxes"
        /\ args' = [state |-> st, query |-> QueryOf(st)]
        /\ pages' = script
    /\ pc' = "list_first"
    /\ UNCHANGED <<fetched, has_next, sandboxes, idx, count, files, calls, result, self, alive>>

(***************************************************************************)
(* kill, kill_all                                                          *)
(***************************************************************************)
\* mutant: the message is searched without lower()
IsNotFound_caseSensitive(msg) ==
    Contains(msg, NotFoundText) \/ Contains(msg, Text404)

\* "not found" in error_str or "404" in error_str, error_str = str(e).lower()
IsNotFound(msg) ==
    Contains(Lower(msg), NotFoundText) \/ Contains(Lower(msg), Text404)

\* kill(): what it makes of the provider's answer to terminate
kill(outcome) ==
    IF outcome.kind = "ok" THEN Value(TRUE)
    ELSE IF IsNotFound(outcome.msg) THEN Value(FALSE)
    ELSE Raised(outcome)

\* mutant: the gate lets every call through
ConfirmRejected_never(confirm) == FALSE

\* if not confirm: raise ValueError
ConfirmRejected(confirm) == ~confirm

\* AsyncSandbox.kill on a sandbox that lives ends it or fails; on one that
\* is gone it fails, with NotFound unless the request itself failed
TerminateAnswers(id, live) ==
    IF id \in live THEN {Terminated, RequestTimeout, Http500}
    ELSE TerminateFailures

\* the sandboxes left after the provider answered a terminate of id
AfterTerminate(id, live, outcome) ==
    IF outcome.kind = "ok" THEN live \ {id} ELSE live

\* the ids of a fleet
IdsOf(fleet) == {fleet[i].sandbox_id : i \in 1..Len(fleet)}

Start_kill ==
    /\ pc = "idle"
    /\ \E i \in 1..MaxFleet, live \in SUBSET {SandboxIds[j] : j \in 1..MaxFleet} :
        /\ op' = "kill"
        /\ args' = [sandbox_id |-> SandboxIds[i]]
        /\ alive' = live
    /\ pc' = "kill"
    /\ UNCHANGED <<pages, fetched, has_next, sandboxes, idx, count, files, calls, result, self>>

\* await AsyncSandbox.kill(sandbox_id=...), called by kill(id)
KillStep ==
    /\ pc = "kill"
    /\ op = "kill"
    /\ \E o \in TerminateAnswers(args.sandbox_id, alive) :
        /\ calls' = Append(calls, [op |-> "terminate", sandbox_id |-> args.sandbox_id,
                                   outcome |-> o])
        /\ alive' = AfterTerminate(args.sandbox_id, alive, o)
        /\ result' = kill(o)
    /\ pc' = "done"
    /\ UNCHANGED <<op, args, pages, fetched, has_next, sandboxes, idx, count, files, self>>

Start_kill_all ==
    /\ pc = "idle"
    /\ \E confirm \in BOOLEAN, fleet \in KillFleets :
        /\ op' = "kill_all"
        /\ args' = [confirm |-> confirm]
        /\ pages' = Paginate(fleet, PageSize)
        /\ alive' = IdsOf(fleet)
        /\ IF ConfirmRejected(confirm)
           THEN result' = Raised(ValueError) /\ pc' = "done"
           ELSE pc' = "list_first" /\ UNCHANGED result
    /\ UNCHANGED <<fetched, has_next, sandboxes, idx, count, files, calls, self>>

\* if await self.kill(sbx.sandbox_id): count += 1   (one turn of the loop)
KillAllStep ==
    /\ pc = "kill"
    /\ op = "kill_all"
    /\ \E o \in TerminateAnswers(sandboxes[idx].sandbox_id, alive) :
        LET r == kill(o) IN
        /\ calls' = Append(calls, [op |-> "terminate",
                                   sandbox_id |-> sandboxes[idx].sandbox_id,
                                   outcome |-> o])
        /\ alive' = AfterTerminate(sandboxes[idx].sandbox_id, alive, o)
        /\ IF r.kind = "error"
           THEN /\ result' = r
                /\ pc' = "done"
                /\ UNCHANGED <<idx, count>>
           ELSE LET c == IF r.value THEN count + 1 ELSE count IN
                /\ count' = c
                /\ idx' = idx + 1
                /\ IF idx = Len(sandboxes)
                   THEN result' = Value(c) /\ pc' = "done"
                   ELSE UNCHANGED <<result, pc>>
    /\ UNCHANGED <<op, args, pages, fetched, has_next, sandboxes, files, self>>

\* another client of the provider ends a sandbox while kill or kill_all is
\* at work on its terminations
OtherActorKill ==
    /\ pc = "kill"
    /\ \E id \in alive :
        alive' = alive \ {id}
    /\ UNCHANGED <<op, pc, args, pages, fetched, has_next, sandboxes, idx, count,
                   files, calls, result, self>>

Start_summary ==
    /\ pc = "idle"
    /\ \E fleet \in SummaryFleets :
        pages' = Paginate(fleet, PageSize)
    /\ op' = "summary"
    /\ args' = <<>>
    /\ pc' = "list_first"
    /\ UNCHANGED <<fetched, has_next, sandboxes, idx, count, files, calls, result, self, alive>>

(***************************************************************************)
(* SandboxMetrics (schemas.py) and metrics                                 *)
(* Percentages are kept in tenths of a percent: 333 is 33.3.               *)
(***************************************************************************)
BytesPerMb == 1024 * 1024

\* round((used / total) * 100, 1), in tenths.  round() goes to the nearest
\* tenth; a value exactly halfway goes to the even neighbour (which neighbour
\* Python takes when the double product is inexact is not modelled: the
\* readings below hold no such pair).
RoundTenths(used, total) ==
    LET q == (1000 * used) \div total
        r == (1000 * used) % total
    IN  IF 2 * r < total THEN q
        ELSE IF 2 * r > total THEN q + 1
        ELSE IF q % 2 = 0 THEN q ELSE q + 1

\* mutant: the percentage is clamped to 100
Pct_clamped(used, total) ==
    IF total = 0 THEN 0
    ELSE IF RoundTenths(used, total) > 1000 THEN 1000 ELSE RoundTenths(used, total)

\* SandboxMetrics.mem_pct / SandboxMetrics.disk_pct
Pct(used, total) ==
    IF total = 0 THEN 0 ELSE RoundTenths(used, total)

\* SandboxMetrics(...) built by metrics() from a raw reading, with its
\* computed fields
SandboxMetrics(m) ==
    LET mem_total_mb  == m.mem_total \div BytesPerMb
        mem_used_mb   == m.mem_used \div BytesPerMb
        disk_total_mb == m.disk_total \div BytesPerMb
        disk_used_mb  == m.disk_used \div BytesPerMb
    IN  [cpu_count     |-> m.cpu_count,
         cpu_pct       |-> m.cpu_used_pct,
         mem_total_mb  |-> mem_total_mb,
         mem_used_mb   |-> mem_used_mb,
         disk_total_mb |-> disk_total_mb,
         disk_used_mb  |-> disk_used_mb,
         timestamp     |-> m.timestamp,
         mem_pct       |-> Pct(mem_used_mb, mem_total_mb),
         disk_pct      |-> Pct(disk_used_mb, disk_total_mb)]

\* mutant: one point is collapsed whether or not a range was asked for
Collapses_anyRange(start, end, results) == Len(results) = 1

\* if start is None and end is None and len(results) == 1
Collapses(start, end, results) ==
    start = None /\ end = None /\ Len(results) = 1

\* what metrics() returns: one SandboxMetrics or the list
MetricsResult(start, end, raw_metrics) ==
    LET results == [i \in 1..Len(raw_metrics) |-> SandboxMetrics(raw_metrics[i])]
    IN  IF Collapses(start, end, results)
        THEN [shape |-> "single", metrics |-> results[1]]
        ELSE [shape |-> "sequence", metrics |-> results]

\* <<total, used>> in bytes, as the provider reports them
UsagePairs ==
    << <<0, 0>>,
       <<0, 5 * BytesPerMb>>,
       <<3 * BytesPerMb, 5 * BytesPerMb>>,
       <<3 * BytesPerMb + 524288, BytesPerMb + 524288>>,
       <<16 * BytesPerMb, 3 * BytesPerMb>>,
       <<16 * BytesPerMb, BytesPerMb>>,
       <<2 * BytesPerMb, 0>>,
       <<524288, 524288>> >>

\* the raw readings get_metrics may return
RawPoints ==
    {[cpu_count    |-> 2,
      cpu_used_pct |-> 125,
      mem_total    |-> UsagePairs[i][1],
      mem_used     |-> UsagePairs[i][2],
      disk_total   |-> UsagePairs[(i % Len(UsagePairs)) + 1][1],
      disk_used    |-> UsagePairs[(i % Len(UsagePairs)) + 1][2],
      timestamp    |-> i] : i \in 1..Len(UsagePairs)}

StartChoices == {None, "2026-01-01T00:00"}
EndChoices == {None, "2026-01-02T00:00"}

\* AsyncSandbox.connect: a handle, or the provider's failure
Connected == [kind |-> "ok"]
ConnectOutcomes == {Connected, SandboxNotFound, RequestTimeout}

\* mutant: the operation goes on whatever connect answered
ConnectProceeds_always(o) == TRUE

\* the statement after the await runs only if connect returned a handle: an
\* exception leaves the coroutine, nothing in these operations catches it
ConnectProceeds(o) == o.kind = "ok"

\* sandbox = await AsyncSandbox.connect(sandbox_id=sandbox_id, api_key=...)
Connect ==
    /\ pc = "connect"
    /\ \E o \in ConnectOutcomes :
        /\ calls' = Append(calls, [op |-> "connect", sandbox_id |-> args.sandbox_id,
                                   api_key |-> self.api_key, outcome |-> o])
        /\ IF ConnectProceeds(o)
           THEN pc' = "delegate" /\ UNCHANGED result
           ELSE pc' = "done" /\ result' = Raised(o)
    /\ UNCHANGED <<op, args, pages, fetched, has_next, sandboxes, idx, count, files, self, alive>>

Start_metrics ==
    /\ pc = "idle"
    /\ \E i \in 1..MaxFleet, start \in StartChoices, end \in EndChoices :
        args' = [sandbox_id |-> SandboxIds[i], start |-> start, end |-> end]
    /\ op' = "metrics"
    /\ pc' = "connect"
    /\ UNCHANGED <<pages, fetched, has_next, sandboxes, idx, count, files, calls, result, self, alive>>

\* raw_metrics = await sandbox.get_metrics(start=start, end=end), and the rest
MetricsStep ==
    /\ pc = "delegate"
    /\ op = "metrics"
    /\ \E o \in {[kind |-> "ok", points |-> raw] : raw \in SeqsUpTo(RawPoints, MaxPoints)}
                \cup {RequestTimeout} :
        /\ calls' = Append(calls, [op |-> "get_metrics", start |-> args.start,
                                   end |-> args.end, outcome |-> o])
        /\ result' = IF o.kind = "ok"
                     THEN Value(MetricsResult(args.start, args.end, o.points))
                     ELSE Raised(o)
    /\ pc' = "done"
    /\ UNCHANGED <<op, args, pages, fetched, has_next, sandboxes, idx, count, files, self, alive>>

(***************************************************************************)
(* upload, download.  Bytes are sequences of integers 0..255, text is a     *)
(* sequence of code points.                                                 *)
(***************************************************************************)
ByteValues == {65, 195, 169}
Contents == SeqsUpTo(ByteValues, MaxBytes)
Paths == {"/data/a"}
FileKeys == {<<SandboxIds[i], p>> : i \in 1..2, p \in Paths}
NoFile == [exists |-> FALSE, content |-> <<>>]
FileNotFound ==
    [kind |-> "NotFound", msg |-> <<"f","i","l","e"," ","n","o","t"," ","f","o","u","n","d">>]

RECURSIVE Utf8Decode(_)
\* the text the provider's read makes of a file's bytes: UTF-8, every byte
\* that starts no valid sequence replaced by U+FFFD (bytes below 224 only)
Utf8Decode(b) ==
    IF b = <<>> THEN <<>>
    ELSE IF b[1] < 128 THEN <<b[1]>> \o Utf8Decode(Tail(b))
    ELSE IF b[1] >= 194 /\ b[1] <= 223 /\ Len(b) >= 2 /\ b[2] >= 128 /\ b[2] <= 191
    THEN <<((b[1] - 192) * 64) + (b[2] - 128)>> \o Utf8Decode(Tail(Tail(b)))
    ELSE <<65533>> \o Utf8Decode(Tail(b))

RECURSIVE Utf8Encode(_)
\* content.encode("utf-8")
Utf8Encode(t) ==
    IF t = <<>> THEN <<>>
    ELSE LET c == t[1] IN
         (IF c < 128 THEN <<c>>
          ELSE IF c < 2048 THEN <<192 + (c \div 64), 128 + (c % 64)>>
          ELSE <<224 + (c \div 4096), 128 + ((c \div 64) % 64), 128 + (c % 64)>>)
         \o Utf8Encode(Tail(t))

\* sandbox.files.read(remote_path): the file as bytes or as decoded text
ReadOutcomes(f) ==
    IF ~f.exists THEN {FileNotFound}
    ELSE {[kind |-> "ok", type |-> "bytes", data |-> f.content],
          [kind |-> "ok", type |-> "str", data |-> Utf8Decode(f.content)]}

\* download(): if isinstance(content, str): return content.encode("utf-8")
Downloaded(content) ==
    IF content.type = "str" THEN Utf8Encode(content.data) ELSE content.data

Start_upload ==
    /\ pc = "idle"
    /\ \E k \in FileKeys, b \in Contents :
        args' = [sandbox_id |-> k[1], remote_path |-> k[2], content |-> b]
    /\ op' = "upload"
    /\ pc' = "connect"
    /\ UNCHANGED <<pages, fetched, has_next, sandboxes, idx, count, files, calls, result, self, alive>>

\* await sandbox.files.write(remote_path, content)
UploadStep ==
    /\ pc = "delegate"
    /\ op = "upload"
    /\ \E o \in {[kind |-> "ok"], RequestTimeout} :
        /\ calls' = Append(calls, [op |-> "write", sandbox_id |-> args.sandbox_id,
                                   path |-> args.remote_path, outcome |-> o])
        /\ IF o.kind = "ok"
           THEN /\ files' = [files EXCEPT ![<<args.sandbox_id, args.remote_path>>] =
                                [exists |-> TRUE, content |-> args.content]]
                /\ result' = Value(None)
           ELSE /\ result' = Raised(o)
                /\ UNCHANGED files
    /\ pc' = "done"
    /\ UNCHANGED <<op, args, pages, fetched, has_next, sandboxes, idx, count, self, alive>>

Start_download ==
    /\ pc = "idle"
    /\ \E k \in FileKeys :
        args' = [sandbox_id |-> k[1], remote_path |-> k[2]]
    /\ op' = "download"
    /\ pc' = "connect"
    /\ UNCHANGED <<pages, fetched, has_next, sandboxes, idx, count, files, calls, result, self, alive>>

\* content = await sandbox.files.read(remote_path), and the rest
DownloadStep ==
    /\ pc = "delegate"
    /\ op = "download"
    /\ \E o \in ReadOutcomes(files[<<args.sandbox_id, args.remote_path>>]) :
        /\ calls' = Append(calls, [op |-> "read", sandbox_id |-> args.sandbox_id,
                                   path |-> args.remote_path, outcome |-> o])
        /\ result' = IF o.kind = "ok" THEN Value(Downloaded(o)) ELSE Raised(o)
    /\ pc' = "done"
    /\ UNCHANGED <<op, args, pages, fetched, has_next, sandboxes, idx, count, files, self, alive>>

(***************************************************************************)
(* AsyncSandboxInspector.__init__                                          *)
(***************************************************************************)
DefaultTimeout == 60

\* what a caller passes as api_key, and what os.environ.get("E2B_API_KEY") gives
ApiKeyArgs == {None, "", "key_arg"}
EnvValues == {None, "", "key_env"}
DefaultTimeoutArgs == {DefaultTimeout, 30}

\* truth value of an optional string: None and "" are false
Truthy(s) == s # None /\ s # ""

\* mutant: the environment is looked at first
ApiKey_envFirst(api_key, env) == IF Truthy(env) THEN env ELSE api_key

\* api_key or os.environ.get("E2B_API_KEY")
ApiKey(api_key, env) == IF Truthy(api_key) THEN api_key ELSE env

\* no inspector has been constructed
NoInspector == [constructed |-> FALSE, api_key |-> None, default_timeout |-> DefaultTimeout]

\* AsyncSandboxInspector(api_key, default_timeout); a failed construction
\* leaves the caller with the inspector it had
__init__ ==
    /\ pc = "idle"
    /\ \E api_key \in ApiKeyArgs, env \in EnvValues, default_timeout \in DefaultTimeoutArgs :
        /\ args' = [api_key |-> api_key, environ |-> env, default_timeout |-> default_timeout]
        /\ LET key == ApiKey(api_key, env) IN
           IF ~Truthy(key)
           THEN result' = Raised(ValueError) /\ UNCHANGED self
           ELSE /\ result' = Value(None)
                /\ self' = [constructed |-> TRUE, api_key |-> key,
                            default_timeout |-> default_timeout]
    /\ op' = "__init__"
    /\ pc' = "done"
    /\ UNCHANGED <<pages, fetched, has_next, sandboxes, idx, count, files, calls, alive>>

(***************************************************************************)
(* exec.  An optional timeout is <<>> for None and <<t>> for the integer t. *)
(***************************************************************************)
NoTimeout == <<>>
TimeoutArgs == {NoTimeout, <<0>>, <<5>>}
Commands == {"ls /tmp"}
TargetIds == {SandboxIds[i] : i \in 1..2}

\* timeout or self.default_timeout
TimeoutSent(timeout, default_timeout) ==
    IF timeout # NoTimeout /\ timeout[1] # 0 THEN timeout[1] ELSE default_timeout

\* result.stdout or ""
OrEmpty(s) == IF Truthy(s) THEN s ELSE ""

\* CommandResult(stdout=..., stderr=..., exit_code=result.exit_code)
CommandResult(r) ==
    [stdout |-> OrEmpty(r.stdout), stderr |-> OrEmpty(r.stderr), exit_code |-> r.exit_code]

\* sandbox.commands.run: the finished command, or the provider's failure
RunOutcomes ==
    {[kind |-> "ok", stdout |-> so, stderr |-> se, exit_code |-> x] :
        so \in {None, "", "out\n"}, se \in {None, "", "err\n"}, x \in {0, 1}}
    \cup {RequestTimeout}

Start_exec ==
    /\ pc = "idle"
    /\ self.constructed
    /\ \E id \in TargetIds, command \in Commands, timeout \in TimeoutArgs :
        args' = [sandbox_id |-> id, command |-> command, timeout |-> timeout]
    /\ op' = "exec"
    /\ pc' = "connect"
    /\ UNCHANGED <<pages, fetched, has_next, sandboxes, idx, count, files, calls, result, self, alive>>

\* result = await sandbox.commands.run(command, timeout=...), and the rest
ExecStep ==
    /\ pc = "delegate"
    /\ op = "exec"
    /\ \E o \in RunOutcomes :
        /\ calls' = Append(calls, [op |-> "run", command |-> args.command,
                                   timeout |-> TimeoutSent(args.timeout, self.default_timeout),
                                   outcome |-> o])
        /\ result' = IF o.kind = "ok" THEN Value(CommandResult(o)) ELSE Raised(o)
    /\ pc' = "done"
    /\ UNCHANGED <<op, args, pages, fetched, has_next, sandboxes, idx, count, files, self, alive>>

(***************************************************************************)
(* python, CodeResult (schemas.py)                                         *)
(***************************************************************************)
MaxLines == 2
Codes == {"print(1/0)"}
StdoutLines == {"a\n", "b"}
StderrLines == {"warn\n"}

\* what the interpreter reports of a cell: its log streams, the error that
\* ended it (if any), and its results
NoLogs == [present |-> FALSE, stdout |-> <<>>, stderr |-> <<>>]
NoError == [present |-> FALSE, name |-> "", value |-> ""]
ZeroDivision == [present |-> TRUE, name |-> "ZeroDivisionError", value |-> "division by zero"]
ResultValues ==
    {[has_text |-> TRUE, text |-> "42", repr |-> "Result(42)"],
     [has_text |-> FALSE, text |-> None, repr |-> "<chart>"]}
Executions ==
    {[kind |-> "ok", logs |-> l, error |-> e, results |-> rs] :
        l \in {[present |-> TRUE, stdout |-> so, stderr |-> se] :
                  so \in SeqsUpTo(StdoutLines, MaxLines),
                  se \in SeqsUpTo(StderrLines, MaxLines)} \cup {NoLogs},
        e \in {NoError, ZeroDivision},
        rs \in SeqsUpTo(ResultValues, 1)}

RECURSIVE Join(_)
\* "".join(lines)
Join(lines) == IF lines = <<>> THEN "" ELSE lines[1] \o Join(Tail(lines))

\* "".join(stream) if stream else "", under if execution.logs
StreamText(logs, stream) ==
    IF logs.present /\ stream # <<>> THEN Join(stream) ELSE ""

\* str(execution.error)
ErrorText(e) == e.name \o ": " \o e.value

\* mutant: the execution error is dropped
CodeError_dropped(e) == None

\* str(execution.error) if execution.error else None
CodeError(e) == IF e.present THEN ErrorText(e) ELSE None

\* [r.text if hasattr(r, "text") else str(r) for r in execution.results]
ResultTexts(rs) ==
    [i \in 1..Len(rs) |-> IF rs[i].has_text THEN rs[i].text ELSE rs[i].repr]

\* CodeResult(stdout=..., stderr=..., error=..., results=...)
CodeResult(execution) ==
    [stdout |-> StreamText(execution.logs, execution.logs.stdout),
     stderr |-> StreamText(execution.logs, execution.logs.stderr),
     error |-> CodeError(execution.error),
     results |-> ResultTexts(execution.results)]

\* CodeResult.success: return self.error is None
success(r) == r.error = None

Start_python ==
    /\ pc = "idle"
    /\ self.constructed
    /\ \E id \in TargetIds, code \in Codes, timeout \in TimeoutArgs :
        args' = [sandbox_id |-> id, code |-> code, timeout |-> timeout]
    /\ op' = "python"
    /\ pc' = "connect"
    /\ UNCHANGED <<pages, fetched, has_next, sandboxes, idx, count, files, calls, result, self, alive>>

\* execution = await sandbox.run_code(code, language="python", timeout=...),
\* and the rest
PythonStep ==
    /\ pc = "delegate"
    /\ op = "python"
    /\ \E o \in Executions \cup {RequestTimeout} :
        /\ calls' = Append(calls, [op |-> "run_code", code |-> args.code,
                                   timeout |-> TimeoutSent(args.timeout, self.default_timeout),
                                   outcome |-> o])
        /\ result' = IF o.kind = "ok" THEN Value(CodeResult(o)) ELSE Raised(o)
    /\ pc' = "done"
    /\ UNCHANGED <<op, args, pages, fetched, has_next, sandboxes, idx, count, files, self, alive>>

(***************************************************************************)
(* info                                                                    *)
(***************************************************************************)
Start_info ==
    /\ pc = "idle"
    /\ self.constructed
    /\ \E id \in TargetIds :
        args' = [sandbox_id |-> id]
    /\ op' = "info"
    /\ pc' = "connect"
    /\ UNCHANGED <<pages, fetched, has_next, sandboxes, idx, count, files, calls, result, self, alive>>

\* sbx_info = await sandbox.get_info(); return SandboxInfo(...)
InfoStep ==
    /\ pc = "delegate"
    /\ op = "info"
    /\ \E o \in {[kind |-> "ok", info |-> RawSandbox(args.sandbox_id, st, t, size)] :
                    st \in States, t \in StartedAts, size \in Sizes}
                \cup {RequestTimeout} :
        /\ calls' = Append(calls, [op |-> "get_info", outcome |-> o])
        /\ result' = IF o.kind # "ok" THEN Raised(o)
                     ELSE IF ~ValidState(o.info.state) THEN Raised(ValidationError)
                     ELSE Value(SandboxInfo(o.info))
    /\ pc' = "done"
    /\ UNCHANGED <<op, args, pages, fetched, has_next, sandboxes, idx, count, files, self, alive>>

(***************************************************************************)
(* files, FileInfo (schemas.py).  The command's output is a sequence of     *)
(* lines, a line a sequence of words, a word a sequence of characters.      *)
(***************************************************************************)
MaxEntries == 2
Dirs == {"/tmp"}
DigitChars == <<"0", "1", "2", "3", "4", "5", "6", "7", "8", "9">>

OutputLines ==
    {<< <<"d">>, <<"4", "0", "9", "6">>, <<"/", "t", "m", "p">> >>,
     << <<"f">>, <<"1", "2">>, <<"/", "t", "m", "p", "/", "a">> >>,
     << <<"d">>, <<"?">>, <<"/">> >>,
     << <<"l">>, <<"7">>, <<"/", "t", "m", "p", "/", "a">>, <<"b">> >>,
     << <<"t", "o", "t", "a", "l">>, <<"8">> >>,
     << >>}

\* size.isdigit()
IsDigits(w) == w # <<>> /\ \A i \in 1..Len(w) : \E d \in 1..10 : DigitChars[d] = w[i]

RECURSIVE IntOf(_)
\* int(size)
IntOf(w) ==
    IF w = <<>> THEN 0
    ELSE (10 * IntOf(SubSeq(w, 1, Len(w) - 1)))
         + ((CHOOSE d \in 1..10 : DigitChars[d] = w[Len(w)]) - 1)

RECURSIVE LastSegment(_)
\* filepath.split("/")[-1]
LastSegment(w) ==
    IF w = <<>> \/ w[Len(w)] = "/" THEN <<>>
    ELSE LastSegment(SubSeq(w, 1, Len(w) - 1)) \o <<w[Len(w)]>>

RECURSIVE JoinWords(_)
\* the rest of the line that split(None, 2) leaves in one piece
JoinWords(ws) ==
    IF Len(ws) = 1 THEN ws[1] ELSE ws[1] \o <<" ">> \o JoinWords(Tail(ws))

\* FileInfo(name=..., path=..., is_dir=..., size_bytes=...) of a line of
\* three words or more
FileInfo(line) ==
    LET filepath == JoinWords(SubSeq(line, 3, Len(line))) IN
    [name |-> IF LastSegment(filepath) # <<>> THEN LastSegment(filepath) ELSE filepath,
     path |-> filepath,
     is_dir |-> line[1] = <<"d">>,
     size_bytes |-> IF IsDigits(line[2]) THEN IntOf(line[2]) ELSE 0]

RECURSIVE ParseLines(_)
\* for line in result.stdout.strip().split("\n"): ... if len(parts) >= 3
ParseLines(lines) ==
    IF lines = <<>> THEN <<>>
    ELSE (IF Len(lines[1]) >= 3 THEN <<FileInfo(lines[1])>> ELSE <<>>)
         \o ParseLines(Tail(lines))

\* f'find {path} -maxdepth 1 -printf "%y %s %p\\n" 2>/dev/null || ls -la {path}'
FindCommand(path) ==
    "find " \o path \o " -maxdepth 1 -printf \"%y %s %p\\n\" 2>/dev/null || ls -la " \o path

Start_files ==
    /\ pc = "idle"
    /\ self.constructed
    /\ \E id \in TargetIds, path \in Dirs :
        args' = [sandbox_id |-> id, path |-> path]
    /\ op' = "files"
    /\ pc' = "connect"
    /\ UNCHANGED <<pages, fetched, has_next, sandboxes, idx, count, files, calls, result, self, alive>>

\* result = await sandbox.commands.run(f'find ...'), and the rest
FilesStep ==
    /\ pc = "delegate"
    /\ op = "files"
    /\ \E o \in {[kind |-> "ok", stdout |-> out] : out \in SeqsUpTo(OutputLines, MaxEntries)}
                \cup {RequestTimeout} :
        /\ calls' = Append(calls, [op |-> "run", command |-> FindCommand(args.path),
                                   outcome |-> o])
        /\ result' = IF o.kind = "ok" THEN Value(ParseLines(o.stdout)) ELSE Raised(o)
    /\ pc' = "done"
    /\ UNCHANGED <<op, args, pages, fetched, has_next, sandboxes, idx, count, files, self, alive>>

(***************************************************************************)
(* The caller takes the outcome; the facade keeps nothing but its      *)
(* configuration between calls.                                            *)
(***************************************************************************)
Idle ==
    /\ op = "idle"
    /\ pc = "idle"
    /\ args = <<>>
    /\ pages = <<>>
    /\ fetched = 0
    /\ has_next = TRUE
    /\ sandboxes = <<>>
    /\ idx = 0
    /\ count = 0
    /\ calls = <<>>
    /\ result = NoResult

Return ==
    /\ pc = "done"
    /\ op' = "idle"
    /\ pc' = "idle"
    /\ args' = <<>>
    /\ pages' = <<>>
    /\ fetched' = 0
    /\ has_next' = TRUE
    /\ sandboxes' = <<>>
    /\ idx' = 0
    /\ count' = 0
    /\ calls' = <<>>
    /\ result' = NoResult
    /\ UNCHANGED <<files, self, alive>>

\* the inspector of the specifications that start after construction
Inspector == [constructed |-> TRUE, api_key |-> "key_env", default_timeout |-> DefaultTimeout]

Init ==
    /\ Idle
    /\ files = [k \in FileKeys |-> NoFile]
    /\ self = Inspector
    /\ alive = {}

\* before any inspector is constructed
InitNew ==
    /\ Idle
    /\ files = [k \in FileKeys |-> NoFile]
    /\ self = NoInspector
    /\ alive = {}

NextListing == Start_list_sandboxes \/ ListFirst \/ ListNext \/ Return

NextLifecycle ==
    \/ Start_kill \/ Start_kill_all \/ ListFirst \/ ListNext \/ KillStep \/ KillAllStep
    \/ OtherActorKill \/ Return

NextSummary == Start_summary \/ ListFirst \/ ListNext \/ Return

NextMetrics == Start_metrics \/ Connect \/ MetricsStep \/ Return

NextFiles ==
    Start_upload \/ Start_download \/ Connect \/ UploadStep \/ DownloadStep \/ Return

NextRun ==
    __init__ \/ Start_exec \/ Start_python \/ Connect \/ ExecStep \/ PythonStep \/ Return

\* the operations on a live target; uploads of one byte at most, which keeps
\* the file store small (what an upload carries plays no part in connecting)
NextTargets ==
    \/ Start_info \/ Start_metrics \/ Start_exec \/ Start_python \/ Start_files
    \/ Start_download
    \/ (Start_upload /\ Len(args'.content) <= 1)
    \/ Connect
    \/ InfoStep \/ MetricsStep \/ ExecStep \/ PythonStep \/ FilesStep
    \/ DownloadStep \/ UploadStep
    \/ Return

Next ==
    \/ NextListing \/ NextLifecycle \/ NextSummary \/ NextMetrics \/ NextFiles
    \/ NextRun \/ NextTargets

SpecListing == Init /\ [][NextListing]_vars
SpecLifecycle == Init /\ [][NextLifecycle]_vars
SpecSummary == Init /\ [][NextSummary]_vars
SpecMetrics == Init /\ [][NextMetrics]_vars
SpecFiles == Init /\ [][NextFiles]_vars
SpecRun == InitNew /\ [][NextRun]_vars
SpecTargets == Init /\ [][NextTargets]_vars
Spec == Init /\ [][Next]_vars

\* the scheduler resumes a coroutine whose awaited page has arrived
LiveListing == SpecListing /\ WF_vars(ListFirst) /\ WF_vars(ListNext)

(***************************************************************************)
(* Properties                                                              *)
(***************************************************************************)
IsTerminate(c) == c.op = "terminate"
IsSuccess(c) == c.op = "terminate" /\ c.outcome.kind = "ok"
IsNextItems(c) == c.op = "next_items"

\* the SandboxInfo records of pages 1..n of a listing, in arrival order
RecordsThrough(s, n) ==
    Flatten([i \in 1..n |-> [j \in 1..Len(s[i].items) |-> SandboxInfo(s[i].items[j])]])

\* the first page after which the provider reports no further pages
FirstNoMore(s) ==
    CHOOSE i \in 1..Len(s) : ~s[i].has_next /\ \A j \in 1..(i - 1) : s[j].has_next

\* the first page that is empty or after which the provider reports no more
FirstEmptyOrNoMore(s) ==
    CHOOSE i \in 1..Len(s) :
        /\ s[i].items = <<>> \/ ~s[i].has_next
        /\ \A j \in 1..(i - 1) : s[j].items # <<>> /\ s[j].has_next

\* C1: kill_all without confirm=True fails with the invalid-argument error
\* (ValueError) and no provider operation, list or terminate, was issued.
C1_KillAllGate ==
    (op = "kill_all" /\ ~args.confirm) =>
        /\ pc = "done"
        /\ result = Raised(ValueError)
        /\ calls = <<>>
        /\ fetched = 0

\* C1 witness: an unconfirmed kill_all was refused while a fleet was there to list
C1_Witness ==
    /\ op = "kill_all"
    /\ ~args.confirm
    /\ result = Raised(ValueError)
    /\ Len(pages[1].items) > 0

\* C2 (as claimed): a confirmed kill_all never aborts: it returns a count, a
\* terminate was attempted on every listed member, and the count is the number
\* of terminations that succeeded.
C2_BatchNotAborted ==
    (op = "kill_all" /\ args.confirm /\ pc = "done") =>
        /\ result.kind = "value"
        /\ Len(SelectSeq(calls, IsTerminate)) = Len(sandboxes)
        /\ result.value = Len(SelectSeq(calls, IsSuccess))

C4_ConcatToLastPage ==
    (op = "list_sandboxes" /\ pc = "done") =>
        result = Value(RecordsThrough(pages, FirstNoMore(pages)))

\* C4 (amended): list_sandboxes returns, in arrival order, the records of every
\* page up to the first page that is empty or after which the provider reports
\* no further pages.
C4_ConcatToFirstEmptyOrLastPage ==
    (op = "list_sandboxes" /\ pc = "done") =>
        result = Value(RecordsThrough(pages, FirstEmptyOrNoMore(pages)))

\* C4 witness: a listing of three pages was returned whole
C4_Witness ==
    /\ op = "list_sandboxes"
    /\ pc = "done"
    /\ fetched = 3
    /\ Len(result.value) >= 4

\* C5: list_sandboxes terminates; it never requests a page after the provider
\* reported no further pages, also when the last page is empty; a listing with
\* no sandboxes returns the empty sequence, not an error.
C5_ListingTerminates ==
    /\ [](op = "list_sandboxes" =>
            /\ fetched = Len(SelectSeq(calls, IsNextItems))
            /\ \A i \in 1..Len(calls) :
                  calls[i].page = i /\ \A j \in 1..(i - 1) : pages[j].has_next)
    /\ []((op = "list_sandboxes" /\ pc = "done" /\ pages[1] = Page(<<>>, FALSE)) =>
            result = Value(<<>>))
    /\ (op = "list_sandboxes" /\ pc # "done") ~> (pc = "done")

\* C5 witness: the listing ended on an empty last page and the pages the
\* provider held beyond it were never requested
C5_Witness ==
    /\ op = "list_sandboxes"
    /\ pc = "done"
    /\ fetched = 2
    /\ pages[2] = Page(<<>>, FALSE)
    /\ Len(pages) = 3
    /\ result.kind = "value"
    /\ Len(result.value) > 0

\* the raw records of a whole listing
AllRecords(s) == Flatten([i \in 1..Len(s) |-> s[i].items])

\* C7: every Summary has running_count + paused_count = total_count, total_count
\* is the length of the one listing it was computed from, and total_cpu and
\* total_memory_mb are the sums over that listing.
C7_SummaryCounts ==
    (op = "summary" /\ pc = "done" /\ result.kind = "value") =>
        LET r == result.value
            fleet == AllRecords(pages)
            n == Len(fleet)
        IN  /\ r.running_count + r.paused_count = r.total_count
            /\ Len(SelectSeq(calls, IsNextItems)) = Len(pages)
            /\ r.total_count = n
            /\ r.running_count = Cardinality({i \in 1..n : fleet[i].state = "running"})
            /\ r.paused_count = Cardinality({i \in 1..n : fleet[i].state = "paused"})
            /\ r.total_cpu = Sum([i \in 1..n |-> fleet[i].cpu_count])
            /\ r.total_memory_mb = Sum([i \in 1..n |-> fleet[i].memory_mb])

\* C7 witness: a Summary of a fleet with running and paused sandboxes of
\* different sizes
C7_Witness ==
    /\ op = "summary"
    /\ pc = "done"
    /\ result.kind = "value"
    /\ result.value.running_count = 2
    /\ result.value.paused_count = 1
    /\ result.value.total_cpu = 4
    /\ result.value.total_memory_mb = 1280

\* C8: for a non-empty listing oldest_sandbox_id is the first sandbox, in
\* listing order, with the minimum started_at and newest_sandbox_id the first
\* with the maximum started_at.
C8_OldestNewest ==
    (op = "summary" /\ pc = "done" /\ result.kind = "value" /\ sandboxes # <<>>) =>
        LET fleet == AllRecords(pages)
            n == Len(fleet)
        IN  /\ \E i \in 1..n :
                /\ \A j \in 1..n : fleet[i].started_at <= fleet[j].started_at
                /\ \A j \in 1..(i - 1) : fleet[j].started_at # fleet[i].started_at
                /\ result.value.oldest_sandbox_id = fleet[i].sandbox_id
            /\ \E i \in 1..n :
                /\ \A j \in 1..n : fleet[i].started_at >= fleet[j].started_at
                /\ \A j \in 1..(i - 1) : fleet[j].started_at # fleet[i].started_at
                /\ result.value.newest_sandbox_id = fleet[i].sandbox_id

\* C8 witness: two sandboxes share the latest started_at, the first of them in
\* listing order is reported newest and the third, started earlier, oldest
C8_Witness ==
    /\ op = "summary"
    /\ pc = "done"
    /\ result.kind = "value"
    /\ Len(sandboxes) = 3
    /\ sandboxes[1].started_at = 1
    /\ sandboxes[2].started_at = 2
    /\ sandboxes[3].started_at = 2
    /\ result.value.newest_sandbox_id = SandboxIds[2]
    /\ result.value.oldest_sandbox_id = SandboxIds[1]

\* the SandboxMetrics of a returned result, as a sequence
ReturnedMetrics(r) == IF r.shape = "single" THEN <<r.metrics>> ELSE r.metrics

\* p, in tenths of a percent, is used/total x 100 rounded to one decimal
IsRoundedPct(p, used, total) ==
    /\ 2 * (p * total - 1000 * used) <= total
    /\ 2 * (1000 * used - p * total) <= total

\* C6: metrics() returns a single SandboxMetrics if and only if start and end
\* are both omitted and the provider returned exactly one point; otherwise it
\* returns the sequence, with the provider's order and length.
C6_MetricsShape ==
    (op = "metrics" /\ pc = "done" /\ result.kind = "value") =>
        LET raw == calls[2].outcome.points
            r == result.value
        IN  /\ r.shape = "single" <=>
                  (args.start = None /\ args.end = None /\ Len(raw) = 1)
            /\ r.shape = "single" => r.metrics.timestamp = raw[1].timestamp
            /\ r.shape = "sequence" =>
                  /\ Len(r.metrics) = Len(raw)
                  /\ \A i \in 1..Len(raw) : r.metrics[i].timestamp = raw[i].timestamp

\* C6 witness: one point came back for a request with a range and was
\* returned as a sequence of length 1
C6_Witness ==
    /\ op = "metrics"
    /\ pc = "done"
    /\ args.start # None
    /\ result.kind = "value"
    /\ result.value.shape = "sequence"
    /\ Len(result.value.metrics) = 1

\* C10 (as claimed): mem_pct (disk_pct) is 0.0 exactly when mem_total_mb
\* (disk_total_mb) is 0; otherwise it is used/total x 100 rounded to one decimal.
C10_PctZeroIffTotalZero ==
    (op = "metrics" /\ pc = "done" /\ result.kind = "value") =>
        \A i \in 1..Len(ReturnedMetrics(result.value)) :
            LET m == ReturnedMetrics(result.value)[i] IN
            /\ m.mem_pct = 0 <=> m.mem_total_mb = 0
            /\ m.disk_pct = 0 <=> m.disk_total_mb = 0
            /\ m.mem_total_mb # 0 => IsRoundedPct(m.mem_pct, m.mem_used_mb, m.mem_total_mb)
            /\ m.disk_total_mb # 0 => IsRoundedPct(m.disk_pct, m.disk_used_mb, m.disk_total_mb)

\* C10 (amended): mem_pct (disk_pct) is 0.0 whenever mem_total_mb
\* (disk_total_mb) is 0, whatever the used value; otherwise it is
\* used/total x 100 rounded to one decimal, unclamped (so it is 0.0 as well when
\* the total is not 0 and the quotient rounds to 0.0).
C10_PctZeroWhenTotalZero ==
    (op = "metrics" /\ pc = "done" /\ result.kind = "value") =>
        \A i \in 1..Len(ReturnedMetrics(result.value)) :
            LET m == ReturnedMetrics(result.value)[i] IN
            /\ m.mem_total_mb = 0 => m.mem_pct = 0
            /\ m.disk_total_mb = 0 => m.disk_pct = 0
            /\ m.mem_total_mb # 0 => IsRoundedPct(m.mem_pct, m.mem_used_mb, m.mem_total_mb)
            /\ m.disk_total_mb # 0 => IsRoundedPct(m.disk_pct, m.disk_used_mb, m.disk_total_mb)

\* C10 witness: a reading with no memory total and memory in use has
\* mem_pct 0.0, and its disk use above the disk total gives 166.7
C10_Witness ==
    /\ op = "metrics"
    /\ pc = "done"
    /\ result.kind = "value"
    /\ result.value.shape = "single"
    /\ result.value.metrics.mem_total_mb = 0
    /\ result.value.metrics.mem_used_mb = 5
    /\ result.value.metrics.mem_pct = 0
    /\ result.value.metrics.disk_pct = 1667

\* C9 (as claimed): download(id, path) returns the bytes of the last
\* upload(id, path, b), whether the provider's read yields bytes or text.
\* (files[id, path] is written by upload alone and holds the b of the last one.)
C9_RoundTrip ==
    (op = "download" /\ pc = "done" /\ result.kind = "value") =>
        result.value = files[<<args.sandbox_id, args.remote_path>>].content

\* a credential: a string that is present and not empty
IsCredential(s) == s # None /\ s # ""

\* C11: constructing the inspector with neither a credential argument nor a
\* credential in E2B_API_KEY raises ValueError and issues no provider call;
\* when construction succeeds the stored credential is the argument if a
\* credential was given, otherwise the value of the environment variable.
C11_Credential ==
    (op = "__init__" /\ pc = "done") =>
        /\ calls = <<>>
        /\ (~IsCredential(args.api_key) /\ ~IsCredential(args.environ)) =>
               result = Raised(ValueError)
        /\ result.kind = "value" =>
               /\ self.constructed
               /\ self.api_key = IF IsCredential(args.api_key) THEN args.api_key
                                 ELSE args.environ

\* C11 witness: both an argument and an environment value were there, and
\* the inspector holds the argument
C11_Witness ==
    /\ op = "__init__"
    /\ pc = "done"
    /\ result.kind = "value"
    /\ args.api_key = "key_arg"
    /\ args.environ = "key_env"
    /\ self.api_key = "key_arg"

\* the operations that need a live target, and the provider operation each
\* delegates to
TargetOps == {"info", "metrics", "exec", "python", "files", "download", "upload"}
DelegatedCall ==
    [info |-> "get_info", metrics |-> "get_metrics", exec |-> "run", python |-> "run_code",
     files |-> "run", download |-> "read", upload |-> "write"]

\* C12: in a call of info, metrics, exec, python, files, download or upload,
\* connect is issued once, for the caller's id, before the delegated provider
\* operation, which is issued once at most and only after connect succeeded;
\* a finished call has connected; when connect fails (NotFound or otherwise)
\* the call is over, the caller gets that failure, and nothing else was issued.
C12_ConnectOnce ==
    op \in TargetOps =>
        /\ Len(calls) <= 2
        /\ \A i \in 1..Len(calls) : (calls[i].op = "connect") <=> (i = 1)
        /\ calls # <<>> => calls[1].sandbox_id = args.sandbox_id
        /\ Len(calls) = 2 =>
               /\ calls[1].outcome.kind = "ok"
               /\ calls[2].op = DelegatedCall[op]
        /\ pc = "done" => calls # <<>>
        /\ (calls # <<>> /\ calls[1].outcome.kind # "ok") =>
               /\ pc = "done"
               /\ result = Raised(calls[1].outcome)
               /\ Len(calls) = 1

\* C12 witness: python on a sandbox that is gone: connect answered NotFound,
\* the caller got it, run_code was not issued
C12_Witness ==
    /\ op = "python"
    /\ pc = "done"
    /\ Len(calls) = 1
    /\ calls[1].op = "connect"
    /\ calls[1].outcome = SandboxNotFound
    /\ result = Raised(SandboxNotFound)

RECURSIVE Concat(_)
\* the lines of a stream one after another, first emitted first
Concat(lines) ==
    IF lines = <<>> THEN ""
    ELSE Concat(SubSeq(lines, 1, Len(lines) - 1)) \o lines[Len(lines)]

\* C13: when the provider's run_code returns an execution, python returns a
\* CodeResult and does not raise, also when the executed code failed; error is
\* a text naming the failure exactly when the execution carries one and None
\* otherwise, success is true iff the execution carries none, and stdout and
\* stderr are the lines of their stream concatenated in emission order.
C13_CodeResult ==
    (op = "python" /\ pc = "done" /\ Len(calls) = 2 /\ calls[2].outcome.kind = "ok") =>
        LET execution == calls[2].outcome IN
        /\ result.kind = "value"
        /\ (result.value.error # None) <=> execution.error.present
        /\ execution.error.present =>
               result.value.error = execution.error.name \o ": " \o execution.error.value
        /\ success(result.value) <=> ~execution.error.present
        /\ result.value.stdout = Concat(execution.logs.stdout)
        /\ result.value.stderr = Concat(execution.logs.stderr)

\* C13 witness: the code printed two pieces and a warning, then divided by zero
C13_Witness ==
    /\ op = "python"
    /\ pc = "done"
    /\ Len(calls) = 2
    /\ calls[2].outcome.kind = "ok"
    /\ calls[2].outcome.logs.stdout = <<"a\n", "b">>
    /\ calls[2].outcome.error = ZeroDivision
    /\ result.kind = "value"
    /\ result.value.stdout = "a\nb"
    /\ result.value.stderr = "warn\n"
    /\ result.value.error = "ZeroDivisionError: division by zero"
    /\ ~success(result.value)

\* C14 (as claimed): exec and python hand the provider the caller's timeout
\* whenever one is supplied, 0 included, and the inspector's default_timeout
\* only when none is; exec's stdout and stderr are never None (the empty
\* string when the provider gives none) and exit_code is the provider's.
C14_TimeoutPassedOn ==
    /\ (op \in {"exec", "python"} /\ Len(calls) = 2) =>
           calls[2].timeout = IF args.timeout # NoTimeout THEN args.timeout[1]
                              ELSE self.default_timeout
    /\ (op = "exec" /\ pc = "done" /\ Len(calls) = 2 /\ calls[2].outcome.kind = "ok") =>
           LET ran == calls[2].outcome IN
           /\ result.kind = "value"
           /\ result.value.stdout # None
           /\ result.value.stderr # None
           /\ ran.stdout = None => result.value.stdout = ""
           /\ ran.stderr = None => result.value.stderr = ""
           /\ ran.stdout # None => result.value.stdout = ran.stdout
           /\ ran.stderr # None => result.value.stderr = ran.stderr
           /\ result.value.exit_code = ran.exit_code

\* the snapshot members another actor ended while kill_all was at work: gone,
\* and not by a terminate of this call
EndedByOther ==
    {id \in IdsOf(sandboxes) :
        /\ id \notin alive
        /\ \A i \in 1..Len(calls) : ~(IsSuccess(calls[i]) /\ calls[i].sandbox_id = id)}

\* C15 (as claimed): a confirmed kill_all during which another actor ended
\* members of its listing completes without raising, has issued one terminate
\* at most per listed id and none for any other id, and returns the number of
\* its terminates that the provider confirmed, which is at most the size of
\* the listing and counts no member that was already gone.
C15_ConcurrentKillAll ==
    (op = "kill_all" /\ args.confirm /\ pc = "done" /\ EndedByOther # {}) =>
        /\ result.kind = "value"
        /\ \A i \in 1..Len(calls) :
               IsTerminate(calls[i]) =>
                   /\ calls[i].sandbox_id \in IdsOf(sandboxes)
                   /\ \A j \in 1..Len(calls) :
                          (IsTerminate(calls[j]) /\ calls[j].sandbox_id = calls[i].sandbox_id)
                              => j = i
        /\ result.value = Len(SelectSeq(calls, IsSuccess))
        /\ result.value <= Len(sandboxes)
        /\ result.value <= Len(sandboxes) - Cardinality(EndedByOther)

=============================================================================
